---- MODULE Spec2Model ----
(***************************************************************************)
(* Model of the kanji/kana frequency counter (src/main.go): the depth      *)
(* bounded recursive crawl of kanjiKanaFrequencyCounter.routine, the       *)
(* counting of classified characters, the derived counts computed by       *)
(* newKanjiKanaScraper, the link filter and the ranking of                 *)
(* getMostCommonCharactersList.                                            *)
(*                                                                         *)
(* Strings are sequences of one-character strings, so that prefix, suffix  *)
(* and concatenation are computed as the Go code computes them.  A Go map  *)
(* is a function with a finite domain; the order in which `range` walks a  *)
(* map is a nondeterministic choice.                                       *)
(***************************************************************************)
EXTENDS Integers, Sequences, FiniteSets, TLC

VARIABLES
    pc,           \* position in main / newKanjiKanaScraper
    rootURL,      \* the -url flag, then the root URL actually crawled
    depthFlag,    \* the -depth flag
    opts,         \* scraperOptions
    err,          \* the error newKanjiKanaScraper returns
    fc,           \* the kanjiKanaFrequencyCounter (Nil before it is built)
    stack,        \* the call stack of routine
    classifier,   \* the kana package's predicates: character -> classes
    calls,        \* history: every invocation of routine, <<url, layer>>
    fetches,      \* history: every http.Get, [url, layer, outcome]
    href,         \* link filter: the attribute value under test
    check,        \* link filter: the value of `check`
    m,            \* ranking: the frequency mapping
    rankings      \* ranking: the lists returned so far

vars == <<pc, rootURL, depthFlag, opts, err, fc, stack, classifier, calls,
          fetches, href, check, m, rankings>>

Nil == "nil"

(***************************************************************************)
(* Strings                                                                 *)
(***************************************************************************)

\* strings.HasPrefix(s, prefix)
HasPrefix(s, prefix) ==
    Len(s) >= Len(prefix) /\ SubSeq(s, 1, Len(prefix)) = prefix

\* strings.HasSuffix(s, suffix)
HasSuffix(s, suffix) ==
    Len(s) >= Len(suffix) /\ SubSeq(s, Len(s) - Len(suffix) + 1, Len(s)) = suffix

\* strings.Count(s, substr): the number of non-overlapping instances
RECURSIVE Count(_, _)
Count(s, substr) ==
    IF Len(s) < Len(substr) THEN 0
    ELSE IF SubSeq(s, 1, Len(substr)) = substr
         THEN 1 + Count(SubSeq(s, Len(substr) + 1, Len(s)), substr)
         ELSE Count(Tail(s), substr)

StrHttp   == <<"h", "t", "t", "p">>
StrHash   == <<"#">>
StrDotDot == <<".", ".">>
StrHtml   == <<".", "h", "t", "m", "l">>
StrSlash  == <<"/">>
StrWWW    == <<":", "/", "/", "w", "w", "w", ".">>

(***************************************************************************)
(* The link filter of routine                                              *)
(***************************************************************************)

\* a filter that forgot the parent-relative test
LinkCheckNoDotDot(val) ==
    LET c1 == Len(val) > 0 /\ ~HasPrefix(val, StrHttp)
        c2 == c1 /\ ~HasPrefix(val, StrHash)
    IN  c2 /\ HasSuffix(val, StrHtml)

\* the value of `check` for attr.Val = val
LinkCheck(val) ==
    LET c1 == Len(val) > 0 /\ ~HasPrefix(val, StrHttp)
        c2 == c1 /\ ~HasPrefix(val, StrHash)
        c3 == c2 /\ ~HasPrefix(val, StrDotDot)
    IN  c3 /\ HasSuffix(val, StrHtml)

(***************************************************************************)
(* Go maps                                                                 *)
(***************************************************************************)

\* make(map[string]int)
EmptyMap == [k \in {} |-> 0]

\* m[k], the zero value when k is absent
Get(mp, k) == IF k \in DOMAIN mp THEN mp[k] ELSE 0

\* an increment that overwrites the entry instead of adding to it
IncOverwrite(mp, k) ==
    [x \in DOMAIN mp \cup {k} |-> IF x = k THEN 1 ELSE mp[x]]

\* m[k] += 1
Inc(mp, k) ==
    [x \in DOMAIN mp \cup {k} |-> IF x = k THEN Get(mp, k) + 1 ELSE mp[x]]

\* every order in which `range` may walk the keys of a set
Orders(S) ==
    {o \in [1..Cardinality(S) -> S] : \A i, j \in DOMAIN o : i # j => o[i] # o[j]}

(***************************************************************************)
(* getMostCommonCharactersList                                             *)
(***************************************************************************)

\* a comparison that ranks the rarest character first
LessAscending(mp, a, b) == mp[a] < mp[b]

\* the less function handed to sort.SliceStable
Less(mp, a, b) == mp[a] > mp[b]

Max(S) == CHOOSE x \in S : \A y \in S : x >= y

\* one insertion of the insertion sort behind sort.SliceStable: x moves left
\* while it is less than its left neighbour, so it lands right after the
\* last element it is not less than
InsertStable(sorted, x, mp) ==
    LET stay == {i \in 1..Len(sorted) : ~Less(mp, x, sorted[i])}
        p    == IF stay = {} THEN 0 ELSE Max(stay)
    IN  SubSeq(sorted, 1, p) \o <<x>> \o SubSeq(sorted, p + 1, Len(sorted))

\* sort.SliceStable(charactersList, less)
RECURSIVE SliceStable(_, _)
SliceStable(list, mp) ==
    IF list = <<>> THEN <<>>
    ELSE InsertStable(SliceStable(SubSeq(list, 1, Len(list) - 1), mp),
                      list[Len(list)], mp)

\* getMostCommonCharactersList(m), `order` being the order in which
\* `for k := range m` yields the keys
getMostCommonCharactersList(mp, order) == SliceStable(order, mp)

(***************************************************************************)
(* Bounds and inputs                                                       *)
(***************************************************************************)

maxSearchDepth == 10
\* the deepest accepted -depth flag the model crawls with
MaxDepth == 2
\* fetches that may be answered with anything; later ones get the leaf page
MaxFetches == 3
\* the largest count in a mapping handed to the ranking
MaxCount == 2
\* calls of the ranking on one mapping
MaxCalls == 2
\* pieces an attribute value under test is made of
MaxPieces == 3

defaultURL ==
    <<"h", "t", "t", "p", "s", ":", "/", "/", "w", "w", "w", ".", "y", "o",
      "m", "i", "u", "r", "i", ".", "c", "o", ".", "j", "p">>

\* -url flags: one that validURL accepts, one that it rejects
RootFlags == {<<"h", "t", "t", "p", ":", "/", "/", "w", "w", "w", ".", "x">>,
              <<"x">>}

\* -depth flags: below the range, in it, at its end and past it
DepthFlags == (-1..MaxDepth) \cup {maxSearchDepth, maxSearchDepth + 1}

Classes == {"Kanji", "Katakana", "Hiragana"}

\* the characters a body is made of: "ji", "ta", "hi" stand for characters of
\* the three scripts, "la" for any other character
Chars == {"ji", "ta", "hi", "la"}

\* the kana predicates, as the set of classes that hold of each character:
\* one with disjoint classes, and ones where a character is in two or three
DisjointClasses ==
    [c \in Chars |-> CASE c = "ji" -> {"Kanji"}
                       [] c = "ta" -> {"Katakana"}
                       [] c = "hi" -> {"Hiragana"}
                       [] OTHER    -> {}]
Classifiers ==
    {DisjointClasses,
     [c \in Chars |-> CASE c = "ji" -> {"Kanji"}
                        [] c = "ta" -> {"Katakana", "Hiragana"}
                        [] c = "hi" -> {"Hiragana"}
                        [] OTHER    -> {}],
     [c \in Chars |-> CASE c = "ji" -> {"Kanji", "Katakana", "Hiragana"}
                        [] c = "ta" -> {"Katakana"}
                        [] c = "hi" -> {}
                        [] OTHER    -> {}]}

HrefA     == <<"a">> \o StrHtml
HrefAA    == HrefA \o StrSlash \o HrefA
HrefFrag  == <<"#", "s">>
HrefAbs   == StrHttp \o <<":", "/", "/", "o", "/", "p">> \o StrHtml
HrefUp    == StrDotDot \o StrSlash \o HrefA

\* a response body: its characters outside the markup, and the href values of
\* its anchors in document order
LeafBody == [text |-> <<"ji", "la", "ta">>, hrefs |-> <<HrefFrag>>]
Bodies ==
    {LeafBody,
     [text |-> <<"hi", "ji", "ji">>, hrefs |-> <<HrefA, HrefAbs, HrefA>>],
     [text |-> <<"ta", "ta", "hi">>, hrefs |-> <<HrefA, HrefUp, HrefAA>>]}

(***************************************************************************)
(* The counter                                                             *)
(***************************************************************************)

IsKanji(c)    == "Kanji" \in classifier[c]
IsKatakana(c) == "Katakana" \in classifier[c]
IsHiragana(c) == "Hiragana" \in classifier[c]

\* &kanjiKanaFrequencyCounter{kanjis: make(...), katakanas: ..., hiraganas: ...}
NewCounter ==
    [allCharacteresCount |-> 0, uniqueCount |-> 0, kanjiUniqueCount |-> 0,
     kanaUniqueCount |-> 0, hiraganaUniqueCount |-> 0,
     katakanaUniqueCount |-> 0,
     kanjis |-> EmptyMap, hiraganas |-> EmptyMap, katakanas |-> EmptyMap]

\* a loop body that counts the character once for every class it is in
ObservePerClass(f, c) ==
    LET n == Cardinality(classifier[c])
    IN  [f EXCEPT !.allCharacteresCount = @ + n,
                  !.kanjis    = IF IsKanji(c) THEN Inc(@, c) ELSE @,
                  !.katakanas = IF IsKatakana(c) THEN Inc(@, c) ELSE @,
                  !.hiraganas = IF IsHiragana(c) THEN Inc(@, c) ELSE @]

\* the body of `for _, r := range text` for the character c
Observe(f, c) ==
    IF IsKanji(c) \/ IsKatakana(c) \/ IsHiragana(c)
    THEN [f EXCEPT !.allCharacteresCount = @ + 1,
                   !.kanjis    = IF IsKanji(c) THEN Inc(@, c) ELSE @,
                   !.katakanas = IF IsKatakana(c) THEN Inc(@, c) ELSE @,
                   !.hiraganas = IF IsHiragana(c) THEN Inc(@, c) ELSE @]
    ELSE f

\* the loop `for _, r := range text`, in document order
RECURSIVE ObserveAll(_, _)
ObserveAll(f, text) ==
    IF text = <<>> THEN f
    ELSE ObserveAll(Observe(f, Head(text)), Tail(text))

\* a links map that leaves out the URLs routine was already called for
ExtractLinksUnvisited(url, hrefs) ==
    {url \o StrSlash \o hrefs[i] : i \in {j \in DOMAIN hrefs : LinkCheck(hrefs[j])}}
    \ {calls[i][1] : i \in DOMAIN calls}

\* the links map a visit of url builds from the anchors' href values
ExtractLinks(url, hrefs) ==
    {url \o StrSlash \o hrefs[i] : i \in {j \in DOMAIN hrefs : LinkCheck(hrefs[j])}}

\* derived counts that add the two kana mappings' sizes
DerivedCountsKanaSum(f) ==
    [f EXCEPT !.uniqueCount = @ + Cardinality(DOMAIN f.kanjis)
                                + Cardinality(DOMAIN f.katakanas)
                                + Cardinality(DOMAIN f.hiraganas),
              !.kanjiUniqueCount    = Cardinality(DOMAIN f.kanjis),
              !.katakanaUniqueCount = Cardinality(DOMAIN f.katakanas),
              !.hiraganaUniqueCount = Cardinality(DOMAIN f.hiraganas),
              !.kanaUniqueCount     = Cardinality(DOMAIN f.katakanas)
                                      + Cardinality(DOMAIN f.hiraganas)]

\* the derived counts newKanjiKanaScraper computes after the traversal
DerivedCounts(f) ==
    [f EXCEPT !.uniqueCount = @ + Cardinality(DOMAIN f.kanjis)
                                + Cardinality(DOMAIN f.katakanas)
                                + Cardinality(DOMAIN f.hiraganas),
              !.kanjiUniqueCount    = Cardinality(DOMAIN f.kanjis),
              !.katakanaUniqueCount = Cardinality(DOMAIN f.katakanas),
              !.hiraganaUniqueCount = Cardinality(DOMAIN f.hiraganas),
              !.kanaUniqueCount     =
                  Cardinality(DOMAIN f.katakanas \cup DOMAIN f.hiraganas)]

(***************************************************************************)
(* Options                                                                 *)
(***************************************************************************)

\* a pointer is a sequence: <<>> is nil, <<v>> points to v
NilPtr == <<>>

\* an option that rejects only depths past maxSearchDepth
WithSearchDepthOffByOne(depth, o) ==
    IF depth < 0
    THEN [err |-> "search depth should be positive", opts |-> o]
    ELSE IF depth > maxSearchDepth
    THEN [err |-> "search depth exceeds default maximum depth", opts |-> o]
    ELSE [err |-> Nil, opts |-> [o EXCEPT !.searchDepth = <<depth>>]]

\* WithSearchDepth(depth) applied to the options o
WithSearchDepth(depth, o) ==
    IF depth < 0
    THEN [err |-> "search depth should be positive", opts |-> o]
    ELSE IF depth >= maxSearchDepth
    THEN [err |-> "search depth exceeds default maximum depth", opts |-> o]
    ELSE [err |-> Nil, opts |-> [o EXCEPT !.searchDepth = <<depth>>]]

\* WithLogging() applied to the options o
WithLogging(o) == [err |-> Nil, opts |-> [o EXCEPT !.loggingMode = TRUE]]

validURL(url) == HasPrefix(url, StrHttp) /\ Count(url, StrWWW) = 1

\* one Option of main's call: WithSearchDepth(depth) or WithLogging()
ApplyOption(opt, o) ==
    IF opt.kind = "depth" THEN WithSearchDepth(opt.depth, o) ELSE WithLogging(o)

\* the loop of newKanjiKanaScraper over its options: the first error ends it
RECURSIVE ApplyOptions(_, _)
ApplyOptions(options, o) ==
    IF options = <<>> THEN [err |-> Nil, opts |-> o]
    ELSE LET r == ApplyOption(Head(options), o)
         IN  IF r.err # Nil THEN r ELSE ApplyOptions(Tail(options), r.opts)

\* the options main passes
MainOptions ==
    <<[kind |-> "depth", depth |-> depthFlag], [kind |-> "logging", depth |-> 0]>>

\* var opts scraperOptions
ZeroOptions == [searchDepth |-> NilPtr, loggingMode |-> FALSE]

(***************************************************************************)
(* routine                                                                 *)
(***************************************************************************)

\* a call of routine(url, layer) that has not run yet
Call(url, layer) == [url |-> url, layer |-> layer, links |-> {}, at |-> "entry"]

Top == stack[Len(stack)]
Pop(stk) == SubSeq(stk, 1, Len(stk) - 1)

\* a guard that lets the call below the budget through
DepthExhaustedOffByOne(layer) == layer < -1

\* `if layer < 0 { return }`
DepthExhausted(layer) == layer < 0

\* an error return that unwinds the whole traversal
ReturnOnErrorUnwindAll(stk) == <<>>

\* `return` after a failed http.Get or io.ReadAll: this call ends, its
\* callers go on
ReturnOnError(stk) == Pop(stk)

\* a loop that calls routine with the budget unchanged
NextLayerSame(layer) == layer

\* the budget of the recursive call
NextLayer(layer) == layer - 1

\* what http.Get and io.ReadAll may yield as a body
Served == IF Len(fetches) < MaxFetches THEN Bodies ELSE {LeafBody}

AtEntry == pc = "routine" /\ stack # <<>> /\ Top.at = "entry"
AtLoop  == pc = "routine" /\ stack # <<>> /\ Top.at = "loop"

Fetch(outcome, body) ==
    [url |-> Top.url, layer |-> Top.layer, outcome |-> outcome, body |-> body]

NoBody == [text |-> <<>>, hrefs |-> <<>>]

\* routine returns at once: the depth budget is used up
RoutineDepthExhausted ==
    /\ AtEntry
    /\ DepthExhausted(Top.layer)
    /\ stack' = Pop(stack)
    /\ UNCHANGED <<pc, rootURL, depthFlag, opts, err, fc, classifier, calls,
                   fetches, href, check, m, rankings>>

\* http.Get fails
RoutineFetchError ==
    /\ AtEntry
    /\ ~DepthExhausted(Top.layer)
    /\ fetches' = Append(fetches, Fetch("fetchError", NoBody))
    /\ stack' = ReturnOnError(stack)
    /\ UNCHANGED <<pc, rootURL, depthFlag, opts, err, fc, classifier, calls,
                   href, check, m, rankings>>

\* io.ReadAll fails
RoutineReadError ==
    /\ AtEntry
    /\ ~DepthExhausted(Top.layer)
    /\ fetches' = Append(fetches, Fetch("readError", NoBody))
    /\ stack' = ReturnOnError(stack)
    /\ UNCHANGED <<pc, rootURL, depthFlag, opts, err, fc, classifier, calls,
                   href, check, m, rankings>>

\* the body is read: its characters are counted and its links collected
RoutineVisit ==
    /\ AtEntry
    /\ ~DepthExhausted(Top.layer)
    /\ \E body \in Served :
        /\ fetches' = Append(fetches, Fetch("ok", body))
        /\ fc' = <<ObserveAll(fc[1], body.text)>>
        /\ stack' = [stack EXCEPT ![Len(stack)] =
                        [@ EXCEPT !.at = "loop",
                                  !.links = ExtractLinks(Top.url, body.hrefs)]]
    /\ UNCHANGED <<pc, rootURL, depthFlag, opts, err, classifier, calls,
                   href, check, m, rankings>>

\* one iteration of `for nextURL := range links`
RoutineRecurse ==
    /\ AtLoop
    /\ \E nextURL \in Top.links :
        /\ stack' = Append([stack EXCEPT ![Len(stack)].links = @ \ {nextURL}],
                           Call(nextURL, NextLayer(Top.layer)))
        /\ calls' = Append(calls, <<nextURL, NextLayer(Top.layer)>>)
    /\ UNCHANGED <<pc, rootURL, depthFlag, opts, err, fc, classifier, fetches,
                   href, check, m, rankings>>

\* the loop over links is over: routine returns
RoutineReturn ==
    /\ AtLoop
    /\ Top.links = {}
    /\ stack' = Pop(stack)
    /\ UNCHANGED <<pc, rootURL, depthFlag, opts, err, fc, classifier, calls,
                   fetches, href, check, m, rankings>>

(***************************************************************************)
(* newKanjiKanaScraper and main                                            *)
(***************************************************************************)

\* an option fails: newKanjiKanaScraper returns nil and the error
NewScraperOptionError ==
    /\ pc = "main"
    /\ LET r == ApplyOptions(MainOptions, ZeroOptions)
       IN  /\ r.err # Nil
           /\ err' = r.err
           /\ opts' = r.opts
    /\ pc' = "returned"
    /\ UNCHANGED <<rootURL, depthFlag, fc, stack, classifier, calls, fetches,
                   href, check, m, rankings>>

\* the options hold: the counter is built and routine called on the root
NewScraperStart ==
    /\ pc = "main"
    /\ LET r    == ApplyOptions(MainOptions, ZeroOptions)
           root == IF validURL(rootURL) THEN rootURL ELSE defaultURL
       IN  /\ r.err = Nil
           /\ opts' = r.opts
           /\ rootURL' = root
           /\ fc' = <<NewCounter>>
           /\ stack' = <<Call(root, r.opts.searchDepth[1])>>
           /\ calls' = <<<<root, r.opts.searchDepth[1]>>>>
    /\ pc' = "routine"
    /\ UNCHANGED <<depthFlag, err, classifier, fetches, href, check, m,
                   rankings>>

\* routine has returned and the context is done: the derived counts
NewScraperFinish ==
    /\ pc = "routine"
    /\ stack = <<>>
    /\ fc' = <<DerivedCounts(fc[1])>>
    /\ pc' = "returned"
    /\ UNCHANGED <<rootURL, depthFlag, opts, err, stack, classifier, calls,
                   fetches, href, check, m, rankings>>

\* main after an error: it logs it and then reads res.kanjis of a nil res
MainNilResult ==
    /\ pc = "returned"
    /\ fc = NilPtr
    /\ pc' = "panic"
    /\ UNCHANGED <<rootURL, depthFlag, opts, err, fc, stack, classifier, calls,
                   fetches, href, check, m, rankings>>

\* main ranks the three mappings and prints the report
MainReport ==
    /\ pc = "returned"
    /\ fc # NilPtr
    /\ \E oj \in Orders(DOMAIN fc[1].kanjis),
          ot \in Orders(DOMAIN fc[1].katakanas),
          oh \in Orders(DOMAIN fc[1].hiraganas) :
            rankings' = <<getMostCommonCharactersList(fc[1].kanjis, oj),
                          getMostCommonCharactersList(fc[1].katakanas, ot),
                          getMostCommonCharactersList(fc[1].hiraganas, oh)>>
    /\ pc' = "done"
    /\ UNCHANGED <<rootURL, depthFlag, opts, err, fc, stack, classifier, calls,
                   fetches, href, check, m>>

Init ==
    /\ pc = "main"
    /\ rootURL \in RootFlags
    /\ depthFlag \in DepthFlags
    /\ classifier \in Classifiers
    /\ opts = ZeroOptions
    /\ err = Nil
    /\ fc = NilPtr
    /\ stack = <<>>
    /\ calls = <<>>
    /\ fetches = <<>>
    /\ href = <<>>
    /\ check = FALSE
    /\ m = EmptyMap
    /\ rankings = <<>>

Next ==
    \/ NewScraperOptionError
    \/ NewScraperStart
    \/ RoutineDepthExhausted
    \/ RoutineFetchError
    \/ RoutineReadError
    \/ RoutineVisit
    \/ RoutineRecurse
    \/ RoutineReturn
    \/ NewScraperFinish
    \/ MainNilResult
    \/ MainReport

Spec == Init /\ [][Next]_vars

(***************************************************************************)
(* The link filter on its own: one attribute value, one evaluation         *)
(***************************************************************************)

SamplePage2 ==
    <<"p", "a", "g", "e", "2", ".", "h", "t", "m", "l">>
SampleSubPage3 ==
    <<"s", "u", "b", "/", "p", "a", "g", "e", "3", ".", "h", "t", "m",
    "l">>
SampleAbsolute ==
    <<"h", "t", "t", "p", ":", "/", "/", "o", "t", "h", "e", "r", ".",
    "s", "i", "t", "e", "/", "p", "a", "g", "e", ".", "h", "t", "m", "l">>
SampleFragment ==
    <<"#", "s", "e", "c", "t", "i", "o", "n">>
SampleParent ==
    <<".", ".", "/", "p", "a", "r", "e", "n", "t", ".", "h", "t", "m",
    "l">>
SampleHtm ==
    <<"p", "a", "g", "e", ".", "h", "t", "m">>
SampleEmpty ==
    <<>>

SampleHrefs ==
    {SamplePage2, SampleSubPage3, SampleAbsolute, SampleFragment,
     SampleParent, SampleHtm, SampleEmpty}

\* the pieces the other attribute values under test are made of
Pieces ==
    {StrHttp, StrHash, StrDotDot, StrHtml, StrSlash, <<"a">>, <<".">>,
     <<".", "h", "t", "m">>}

RECURSIVE PieceStrings(_)
PieceStrings(n) ==
    IF n = 0 THEN {<<>>}
    ELSE LET shorter == PieceStrings(n - 1)
         IN  shorter \cup {s \o p : s \in shorter, p \in Pieces}

FilterInputs == SampleHrefs \cup PieceStrings(MaxPieces)

InitFilter ==
    /\ pc = "filter"
    /\ href \in FilterInputs
    /\ check = FALSE
    /\ rootURL = defaultURL
    /\ depthFlag = 0
    /\ classifier = DisjointClasses
    /\ opts = ZeroOptions
    /\ err = Nil
    /\ fc = NilPtr
    /\ stack = <<>>
    /\ calls = <<>>
    /\ fetches = <<>>
    /\ m = EmptyMap
    /\ rankings = <<>>

\* routine meets `href="..."` on an anchor and computes `check`
FilterHref ==
    /\ pc = "filter"
    /\ check' = LinkCheck(href)
    /\ pc' = "filtered"
    /\ UNCHANGED <<rootURL, depthFlag, opts, err, fc, stack, classifier, calls,
                   fetches, href, m, rankings>>

NextFilter == FilterHref

SpecFilter == InitFilter /\ [][NextFilter]_vars

(***************************************************************************)
(* The ranking on its own: one mapping, ranked MaxCalls times              *)
(***************************************************************************)

RankInputs == UNION {[D -> 1..MaxCount] : D \in SUBSET Chars}

InitRank ==
    /\ pc = "rank"
    /\ m \in RankInputs
    /\ rankings = <<>>
    /\ href = <<>>
    /\ check = FALSE
    /\ rootURL = defaultURL
    /\ depthFlag = 0
    /\ classifier = DisjointClasses
    /\ opts = ZeroOptions
    /\ err = Nil
    /\ fc = NilPtr
    /\ stack = <<>>
    /\ calls = <<>>
    /\ fetches = <<>>

\* one call getMostCommonCharactersList(m)
RankCall ==
    /\ pc = "rank"
    /\ Len(rankings) < MaxCalls
    /\ \E order \in Orders(DOMAIN m) :
        rankings' = Append(rankings, getMostCommonCharactersList(m, order))
    /\ UNCHANGED <<pc, rootURL, depthFlag, opts, err, fc, stack, classifier,
                   calls, fetches, href, check, m>>

NextRank == RankCall

SpecRank == InitRank /\ [][NextRank]_vars

(***************************************************************************)
(* What the histories say                                                  *)
(***************************************************************************)

\* the traversal was started, and newKanjiKanaScraper has returned a counter
Started  == pc \in {"routine", "returned", "done"} /\ fc # NilPtr
Returned == pc \in {"returned", "done"} /\ fc # NilPtr

RECURSIVE SumOver(_, _)
SumOver(f, S) ==
    IF S = {} THEN 0
    ELSE LET x == CHOOSE y \in S : TRUE IN f[x] + SumOver(f, S \ {x})

\* the sum of the counts of a mapping
Total(mp) == SumOver(mp, DOMAIN mp)

Occurrences(c, text) == Cardinality({i \in DOMAIN text : text[i] = c})

\* how often the character c was read from the bodies fetched so far
Observed(c) ==
    SumOver([i \in DOMAIN fetches |-> Occurrences(c, fetches[i].body.text)],
            DOMAIN fetches)

StartsWith(s, p) == Len(s) >= Len(p) /\ \A i \in 1..Len(p) : s[i] = p[i]
EndsWith(s, p) ==
    Len(s) >= Len(p) /\ \A i \in 1..Len(p) : s[Len(s) - Len(p) + i] = p[i]

\* a followable child link, as section 4.3 words it
Followable(h) ==
    /\ h # <<>>
    /\ ~StartsWith(h, <<"h", "t", "t", "p">>)
    /\ ~StartsWith(h, <<"#">>)
    /\ ~StartsWith(h, <<".", ".">>)
    /\ EndsWith(h, <<".", "h", "t", "m", "l">>)

\* the successful visits whose page has a followable link to u
LinkingVisits(u) ==
    {i \in DOMAIN fetches :
        /\ fetches[i].outcome = "ok"
        /\ \E j \in DOMAIN fetches[i].body.hrefs :
              /\ Followable(fetches[i].body.hrefs[j])
              /\ u = fetches[i].url \o <<"/">> \o fetches[i].body.hrefs[j]}

CallsOf(u)   == {i \in DOMAIN calls : calls[i][1] = u}
FetchesOf(u) == {i \in DOMAIN fetches : fetches[i].url = u}
\* the visits still in their loop with u left in their links
PendingOf(u) == {i \in DOMAIN stack : stack[i].at = "loop" /\ u \in stack[i].links}

KnownURLs ==
    {calls[i][1] : i \in DOMAIN calls}
    \cup UNION {stack[i].links : i \in DOMAIN stack}

Failures == {i \in DOMAIN fetches : fetches[i].outcome # "ok"}

(***************************************************************************)
(* Claims                                                                  *)
(***************************************************************************)

\* C1: in a traversal started with depth budget N >= 0, every fetch has a
\* budget between 0 and N, the only fetch at budget N is the first one and
\* it is of the root, the root is fetched once the root call has run, and
\* with N = 0 a traversal that has returned made exactly one fetch, whatever
\* the number of links it called routine for.
C1_DepthBoundary ==
    Started =>
        /\ depthFlag >= 0
        /\ \A i \in DOMAIN fetches :
              /\ 0 <= fetches[i].layer /\ fetches[i].layer <= depthFlag
              /\ fetches[i].layer = depthFlag <=> i = 1
        /\ fetches # <<>> => fetches[1].url = rootURL
        /\ \A i \in DOMAIN calls : -1 <= calls[i][2] /\ calls[i][2] <= depthFlag
        /\ Len(fetches) <= Cardinality({i \in DOMAIN calls : calls[i][2] >= 0})
        /\ (stack = <<>> \/ Len(stack) > 1 \/ Top.at = "loop")
              => Cardinality({i \in DOMAIN fetches : fetches[i].layer = depthFlag}) = 1
        /\ (Returned /\ depthFlag = 0) => Len(fetches) = 1

\* C1 witness: depth 0, the root page has two followable links, routine was
\* called for both, and the traversal returned after the one fetch
C1_Witness ==
    /\ Returned
    /\ depthFlag = 0
    /\ Len(calls) = 3
    /\ Len(fetches) = 1
    /\ fetches[1].outcome = "ok"

\* C2: the filter sets check exactly for the attribute values that are not
\* empty, start with none of "http", "#", ".." and end with ".html"; of the
\* sample values it accepts "page2.html" and "sub/page3.html" and no other.
C2_LinkFilter ==
    pc = "filtered" =>
        /\ check <=> Followable(href)
        /\ href \in SampleHrefs =>
              (check <=> href \in {SamplePage2, SampleSubPage3})

\* C2 witness: the sample "sub/page3.html" went through the filter
C2_Witness == pc = "filtered" /\ href = SampleSubPage3 /\ check

\* the URLs the pages fetched so far link to
LinkTargets ==
    UNION {{fetches[i].url \o <<"/">> \o fetches[i].body.hrefs[j] :
                j \in {k \in DOMAIN fetches[i].body.hrefs :
                          Followable(fetches[i].body.hrefs[k])}} :
           i \in {k \in DOMAIN fetches : fetches[k].outcome = "ok"}}

\* every link of every successful visit was called, the root once more
EveryLinkCalled ==
    \A u \in LinkTargets \cup KnownURLs \cup {rootURL} :
        Cardinality(CallsOf(u)) =
            Cardinality(LinkingVisits(u)) + (IF u = rootURL THEN 1 ELSE 0)

\* this step is a failed http.Get or io.ReadAll
FailureStep ==
    /\ Len(fetches') = Len(fetches) + 1
    /\ fetches'[Len(fetches')].outcome # "ok"

NoCountLost ==
    fc # NilPtr =>
        /\ fc' # NilPtr
        /\ fc'[1].allCharacteresCount >= fc[1].allCharacteresCount
        /\ \A c \in Chars :
              /\ Get(fc'[1].kanjis, c) >= Get(fc[1].kanjis, c)
              /\ Get(fc'[1].katakanas, c) >= Get(fc[1].katakanas, c)
              /\ Get(fc'[1].hiraganas, c) >= Get(fc[1].hiraganas, c)

\* C3: a failed fetch or read ends only its own call of routine: the step
\* leaves the counter as it was and pops that one call, leaving its callers
\* and their remaining links in place; no step ever lowers a count; and a
\* run with failures raises no error and, once returned, has called routine
\* for every link of every page it did read and has its derived counts.
C3_FailureIsolation ==
    /\ [][/\ FailureStep =>
                /\ fc' = fc
                /\ stack' = Pop(stack)
                /\ calls' = calls
                /\ pc' = "routine"
          /\ NoCountLost]_vars
    /\ [](Failures # {} =>
            /\ pc # "panic"
            /\ err = Nil
            /\ Returned =>
                  /\ EveryLinkCalled
                  /\ fc[1].kanjiUniqueCount = Cardinality(DOMAIN fc[1].kanjis)
                  /\ Len(fetches) =
                        Cardinality({i \in DOMAIN calls : calls[i][2] >= 0}))

\* C3 witness: the root was read and counted, one of its two children failed,
\* the other was read, and the traversal returned
C3_Witness ==
    /\ Returned
    /\ Len(fetches) >= 3
    /\ fetches[1].outcome = "ok"
    /\ Cardinality(Failures) = 1
    /\ \E i, j \in DOMAIN calls :
          /\ i # j
          /\ calls[i][2] = depthFlag - 1
          /\ calls[j][2] = depthFlag - 1
          /\ \E a \in Failures : fetches[a].url = calls[i][1]
          /\ \E b \in DOMAIN fetches :
                fetches[b].url = calls[j][1] /\ fetches[b].outcome = "ok"
    /\ fc[1].allCharacteresCount > 0

\* the list r holds every key of mp once, most frequent first
RankedBy(r, mp) ==
    /\ Len(r) = Cardinality(DOMAIN mp)
    /\ \A k \in DOMAIN mp : Cardinality({i \in DOMAIN r : r[i] = k}) = 1
    /\ \A i \in DOMAIN r : r[i] \in DOMAIN mp
    /\ \A i \in 1..(Len(r) - 1) : mp[r[i]] >= mp[r[i + 1]]
    /\ (mp = EmptyMap => r = <<>>)

\* C4: every list getMostCommonCharactersList returns for m holds every key
\* of m exactly once, with no adjacent pair in ascending count, is empty for
\* an empty m, and the call leaves m as it was.
C4_RankPermutationSorted ==
    [][/\ m' = m
       /\ \A i \in DOMAIN rankings' : RankedBy(rankings'[i], m)]_vars

\* C4 witness: a mapping of four keys with a tie and two distinct counts was
\* ranked
C4_Witness ==
    /\ pc = "rank"
    /\ rankings # <<>>
    /\ Cardinality(DOMAIN m) = 4
    /\ \E a, b, c \in DOMAIN m : a # b /\ m[a] = m[b] /\ m[c] > m[a]

\* C5: two calls of getMostCommonCharactersList on the same mapping return
\* the same list, ties included.
C5_DeterministicRanking ==
    pc = "rank" => \A i, j \in DOMAIN rankings : rankings[i] = rankings[j]

SumOfClassCounts ==
    Total(fc[1].kanjis) + Total(fc[1].katakanas) + Total(fc[1].hiraganas)

\* C6 as claimed: allCharacteresCount grows by one per matching class, so it
\* is the sum of all counts of the three mappings, whatever the classifier.
C6_TotalIsSumOfClassCounts ==
    Started => fc[1].allCharacteresCount = SumOfClassCounts

\* C6 as amended: allCharacteresCount is the number of characters read that
\* are in at least one class, each counted once however many classes it is
\* in; every class a character is in counts it once in that class's mapping;
\* a character in no class is in no mapping; and the total is the sum of the
\* mappings' counts when no character is in two classes.
C6_TotalCountsCharacters ==
    Started =>
        /\ fc[1].allCharacteresCount =
              SumOver([c \in Chars |->
                          IF classifier[c] # {} THEN Observed(c) ELSE 0], Chars)
        /\ SumOfClassCounts =
              SumOver([c \in Chars |->
                          Observed(c) * Cardinality(classifier[c])], Chars)
        /\ \A c \in Chars :
              classifier[c] = {} =>
                  c \notin DOMAIN fc[1].kanjis \cup DOMAIN fc[1].katakanas
                           \cup DOMAIN fc[1].hiraganas
        /\ (\A c \in Chars : Cardinality(classifier[c]) <= 1)
              => fc[1].allCharacteresCount = SumOfClassCounts

\* C6 witness: a character in two classes and a character in none were read
C6_Witness ==
    /\ Started
    /\ \E c \in Chars : Cardinality(classifier[c]) >= 2 /\ Observed(c) > 0
    /\ \E c \in Chars : classifier[c] = {} /\ Observed(c) > 0
    /\ fc[1].allCharacteresCount < SumOfClassCounts

\* C7: routine is called once for every distinct followable link of every
\* page it reads, and for nothing else but the root: at any time the calls
\* made for a URL plus the visits that still hold it in their links are the
\* successful visits whose page links to it, and once the traversal has
\* returned a URL was fetched as often as it was called within the budget.
C7_NoCrossPageDedup ==
    Started =>
        \A u \in LinkTargets \cup KnownURLs \cup {rootURL} :
            /\ Cardinality(CallsOf(u)) + Cardinality(PendingOf(u)) =
                  Cardinality(LinkingVisits(u)) + (IF u = rootURL THEN 1 ELSE 0)
            /\ Returned =>
                  Cardinality(FetchesOf(u)) =
                      Cardinality({i \in CallsOf(u) : calls[i][2] >= 0})

\* C7 witness: a URL linked from two pages was fetched and read twice, one
\* of the pages naming the same href twice
C7_Witness ==
    /\ Returned
    /\ \E u \in KnownURLs :
          /\ Cardinality(LinkingVisits(u)) = 2
          /\ Cardinality({i \in FetchesOf(u) : fetches[i].outcome = "ok"}) = 2
    /\ \E i \in DOMAIN fetches :
          \E j, k \in DOMAIN fetches[i].body.hrefs :
              /\ j # k
              /\ fetches[i].body.hrefs[j] = fetches[i].body.hrefs[k]
              /\ Followable(fetches[i].body.hrefs[j])

\* C8: with a -depth flag below 0 or at or past maxSearchDepth,
\* newKanjiKanaScraper returns the option's error and no counter, and no
\* call of routine, no fetch and no count has happened.
C8_DepthRejected ==
    (depthFlag < 0 \/ depthFlag >= maxSearchDepth) =>
        /\ pc \in {"main", "returned", "panic"}
        /\ pc # "main" => err # Nil
        /\ fc = NilPtr
        /\ stack = <<>>
        /\ calls = <<>>
        /\ fetches = <<>>

\* C8 witness: newKanjiKanaScraper returned the error for -depth = maxSearchDepth
C8_Witness ==
    /\ pc = "returned"
    /\ depthFlag = maxSearchDepth
    /\ err = "search depth exceeds default maximum depth"

\* C9: the counter newKanjiKanaScraper returns has its derived counts taken
\* from the mappings as they are once every call of routine has returned:
\* the three per-class unique counts are the mappings' sizes, uniqueCount is
\* their sum, and kanaUniqueCount is the number of characters that are a key
\* of katakanas or of hiraganas.
C9_DerivedCounts ==
    Returned =>
        /\ stack = <<>>
        /\ Len(fetches) = Cardinality({i \in DOMAIN calls : calls[i][2] >= 0})
        /\ fc[1].kanjiUniqueCount = Cardinality(DOMAIN fc[1].kanjis)
        /\ fc[1].katakanaUniqueCount = Cardinality(DOMAIN fc[1].katakanas)
        /\ fc[1].hiraganaUniqueCount = Cardinality(DOMAIN fc[1].hiraganas)
        /\ fc[1].uniqueCount =
              fc[1].kanjiUniqueCount + fc[1].katakanaUniqueCount
              + fc[1].hiraganaUniqueCount
        /\ fc[1].kanaUniqueCount =
              Cardinality({c \in Chars : c \in DOMAIN fc[1].katakanas
                                         \/ c \in DOMAIN fc[1].hiraganas})
        /\ \A c \in Chars :
              /\ c \in DOMAIN fc[1].kanjis <=> (IsKanji(c) /\ Observed(c) > 0)
              /\ c \in DOMAIN fc[1].katakanas <=> (IsKatakana(c) /\ Observed(c) > 0)
              /\ c \in DOMAIN fc[1].hiraganas <=> (IsHiragana(c) /\ Observed(c) > 0)

\* C9 witness: a counter was returned in which a character is a key of both
\* kana mappings
C9_Witness ==
    /\ Returned
    /\ fc[1].kanjiUniqueCount >= 1
    /\ DOMAIN fc[1].katakanas \cap DOMAIN fc[1].hiraganas # {}
    /\ fc[1].kanaUniqueCount < fc[1].katakanaUniqueCount + fc[1].hiraganaUniqueCount

\* C10: the count of a character in the mapping of a class it is in is the
\* number of times it was read, over all pages and repeat visits; it has no
\* entry in the mapping of a class it is not in.
C10_ObserveAdditive ==
    Started =>
        \A c \in Chars :
            /\ Get(fc[1].kanjis, c) = (IF IsKanji(c) THEN Observed(c) ELSE 0)
            /\ Get(fc[1].katakanas, c) = (IF IsKatakana(c) THEN Observed(c) ELSE 0)
            /\ Get(fc[1].hiraganas, c) = (IF IsHiragana(c) THEN Observed(c) ELSE 0)

\* C10 witness: a kanji was read at least three times over at least two
\* pages, next to other classified characters
C10_Witness ==
    /\ Started
    /\ Cardinality({i \in DOMAIN fetches : fetches[i].outcome = "ok"}) >= 2
    /\ IsKanji("ji")
    /\ Observed("ji") >= 3
    /\ Get(fc[1].kanjis, "ji") = Observed("ji")
    /\ Observed("ta") >= 1

(***************************************************************************)
(* The traversal of a site with cycles, run to its end                     *)
(***************************************************************************)

\* a page whose one followable link leads to a page like itself: a self-link
CycleBody == [text |-> <<"hi", "ji", "ji">>, hrefs |-> <<HrefA, HrefAbs, HrefA>>]

\* what http.Get and io.ReadAll may yield on a site whose pages, past the
\* first MaxFetches fetches, all link on to a further page
ServedCyclic == IF Len(fetches) < MaxFetches THEN Bodies ELSE {CycleBody}

\* the body is read: its characters are counted and its links collected
RoutineVisitCyclic ==
    /\ AtEntry
    /\ ~DepthExhausted(Top.layer)
    /\ \E body \in ServedCyclic :
        /\ fetches' = Append(fetches, Fetch("ok", body))
        /\ fc' = <<ObserveAll(fc[1], body.text)>>
        /\ stack' = [stack EXCEPT ![Len(stack)] =
                        [@ EXCEPT !.at = "loop",
                                  !.links = ExtractLinks(Top.url, body.hrefs)]]
    /\ UNCHANGED <<pc, rootURL, depthFlag, opts, err, classifier, calls,
                   href, check, m, rankings>>

InitTerm ==
    /\ pc = "main"
    /\ rootURL = defaultURL
    /\ depthFlag \in DepthFlags
    /\ classifier = DisjointClasses
    /\ opts = ZeroOptions
    /\ err = Nil
    /\ fc = NilPtr
    /\ stack = <<>>
    /\ calls = <<>>
    /\ fetches = <<>>
    /\ href = <<>>
    /\ check = FALSE
    /\ m = EmptyMap
    /\ rankings = <<>>

NextTerm ==
    \/ NewScraperOptionError
    \/ NewScraperStart
    \/ RoutineDepthExhausted
    \/ RoutineFetchError
    \/ RoutineReadError
    \/ RoutineVisitCyclic
    \/ RoutineRecurse
    \/ RoutineReturn
    \/ NewScraperFinish
    \/ MainNilResult
    \/ MainReport

\* the program is one thread that keeps running: every fetch returns, every
\* call returns to its caller, and the context's deadline passes
SpecTerm == InitTerm /\ [][NextTerm]_vars /\ WF_vars(NextTerm)

\* the calls on the stack have budgets N, N-1, ... and only the innermost
\* may be below 0
NestingBounded ==
    pc = "routine" =>
        /\ Len(stack) <= depthFlag + 2
        /\ \A i \in DOMAIN stack : stack[i].layer = depthFlag - (i - 1)
        /\ \A i \in DOMAIN stack : stack[i].layer < 0 => i = Len(stack)
        /\ Cardinality({i \in DOMAIN stack : stack[i].layer >= 0}) <= depthFlag + 1

\* C11: on a site with cycles and for every accepted depth N, every call of
\* routine has a budget one below its caller's, so at most N + 1 visits and
\* one guarded call are nested; the traversal, once started, returns; and
\* the derived counts are computed only when every call has returned.
C11_TraversalTerminates ==
    /\ []NestingBounded
    /\ [][(pc = "routine" /\ pc' # "routine") => (stack = <<>> /\ pc' = "returned")]_vars
    /\ (pc = "routine") ~> (Returned /\ stack = <<>>)

\* C11 witness: a traversal of depth 2 or more that was served self-linking
\* pages past the first MaxFetches fetches, nested down to a guarded call,
\* has returned
C11_Witness ==
    /\ Returned
    /\ depthFlag >= 2
    /\ Len(fetches) > MaxFetches
    /\ fetches[Len(fetches)].body = CycleBody
    /\ \E i \in DOMAIN fetches : fetches[i].layer = 0 /\ fetches[i].outcome = "ok"
    /\ \E i \in DOMAIN calls : calls[i][2] = -1

====
